---------------------------- MODULE Spec2Model ----------------------------
(***************************************************************************)
(* The fractal zoom animation of bajfi/mandelbrot-set: the coordinate      *)
(* mapper (utils/transform.rs), the escape-time evaluator and band         *)
(* renderer (utils.rs), the output sink (utils/preserve.rs) and the        *)
(* animation driver with its scoped band workers (main.rs).                *)
(*                                                                         *)
(* Numbers.  The program computes in f64: every +, -, *, / is the exact    *)
(* result rounded to the nearest representable value, ties to even.  The   *)
(* model keeps that rule and narrows the significand from the 53 bits of   *)
(* f64 to MantissaBits bits, so that a value is m * 2^e with |m| <         *)
(* 2^MantissaBits.  A value is the pair <<m, e>> in canonical form: m odd, *)
(* or <<0, 0>>.  The exponent is unbounded (no overflow to infinity and no *)
(* underflow happen on the inputs of the model).                           *)
(***************************************************************************)
EXTENDS Integers, Sequences, FiniteSets, TLC

\* Width of the significand of the model's floating point numbers.
MantissaBits == 8

----------------------------------------------------------------------------
(* f64 arithmetic *)

Abs(n) == IF n < 0 THEN -n ELSE n

Sgn(n) == IF n < 0 THEN -1 ELSE 1

Min2(a, b) == IF a < b THEN a ELSE b

\* Number of bits of the natural number a (0 for 0).
RECURSIVE BitLen(_)
BitLen(a) == IF a = 0 THEN 0 ELSE 1 + BitLen(a \div 2)

\* The canonical pair of the exact value n * 2^e.
RECURSIVE Canon(_, _)
Canon(n, e) ==
    IF n = 0 THEN <<0, 0>>
    ELSE IF n % 2 = 0 THEN Canon(n \div 2, e + 1)
    ELSE <<n, e>>

\* Round the exact value n * 2^e to MantissaBits significant bits, to
\* nearest, ties to even.
RoundF(n, e) ==
    LET a  == Abs(n)
        sh == BitLen(a) - MantissaBits
    IN  IF sh <= 0 THEN Canon(n, e)
        ELSE LET q    == a \div (2 ^ sh)
                 r    == a % (2 ^ sh)
                 half == 2 ^ (sh - 1)
                 up   == r > half \/ (r = half /\ q % 2 = 1)
                 q2   == IF up THEN q + 1 ELSE q
             IN  Canon(Sgn(n) * q2, e + sh)

\* usize as f64 (exact for the sizes of the model).
F(n) == RoundF(n, 0)

\* A dyadic literal n / 2^k.
Dy(n, k) == RoundF(n, -k)

FNeg(x) == <<-x[1], x[2]>>

\* The largest alignment shift computed exactly; beyond it the smaller
\* operand is below a quarter of the last place of the larger one.
MaxShift == 30 - MantissaBits - 1

FAdd(x, y) ==
    IF x[1] = 0 THEN y
    ELSE IF y[1] = 0 THEN x
    ELSE LET e == Min2(x[2], y[2])
         IN  IF x[2] - e > MaxShift THEN x
             ELSE IF y[2] - e > MaxShift THEN y
             ELSE RoundF(x[1] * (2 ^ (x[2] - e)) + y[1] * (2 ^ (y[2] - e)), e)

FSub(x, y) == FAdd(x, FNeg(y))

FMul(x, y) == RoundF(x[1] * y[1], x[2] + y[2])

\* x / y, y # 0: the quotient is taken with MantissaBits + 2 extra bits and
\* a sticky bit, then rounded once.
FDiv(x, y) ==
    IF x[1] = 0 THEN <<0, 0>>
    ELSE LET k  == 2 * MantissaBits + 2
             a  == Abs(x[1]) * (2 ^ k)
             d  == Abs(y[1])
             q  == a \div d
             st == IF a % d = 0 THEN 0 ELSE 1
         IN  RoundF(Sgn(x[1]) * Sgn(y[1]) * (2 * q + st), x[2] - y[2] - k - 1)

FLt(x, y) == FSub(x, y)[1] < 0

FGt(x, y) == FSub(x, y)[1] > 0

----------------------------------------------------------------------------
(* Complex<f64> *)

Cx(re, im) == [re |-> re, im |-> im]

CAdd(a, b) == Cx(FAdd(a.re, b.re), FAdd(a.im, b.im))

CSub(a, b) == Cx(FSub(a.re, b.re), FSub(a.im, b.im))

\* Complex * Complex of the num crate.
CMul(a, b) ==
    Cx(FSub(FMul(a.re, b.re), FMul(a.im, b.im)),
       FAdd(FMul(a.re, b.im), FMul(a.im, b.re)))

\* Complex * f64.
CScale(a, t) == Cx(FMul(a.re, t), FMul(a.im, t))

norm_sqr(z) == FAdd(FMul(z.re, z.re), FMul(z.im, z.im))

----------------------------------------------------------------------------
(* utils.rs: the escape-time evaluator *)

\* Option<usize>
None == <<>>

Some(i) == <<i>>

\* The literal 4.0 of escape_time: the square of the escape radius 2.
EscapeRadiusSqr == 4

\* A loop body that tests the iterate after updating it.
EscapeStepTestAfter(c, s) ==
    IF s[3] # None THEN s
    ELSE LET z == CAdd(CMul(s[1], s[1]), c)
         IN  IF FGt(norm_sqr(z), F(EscapeRadiusSqr)) THEN <<z, s[2], Some(s[2])>>
             ELSE <<z, s[2] + 1, None>>

\* One pass through the body of the for loop of escape_time.  s is
\* <<z, i, returned>>: the iterate, the loop index and the value returned
\* so far (None while the loop runs); a loop that has returned stays as is.
EscapeStep(c, s) ==
    IF s[3] # None THEN s
    ELSE IF FGt(norm_sqr(s[1]), F(EscapeRadiusSqr)) THEN <<s[1], s[2], Some(s[2])>>
    ELSE <<CAdd(CMul(s[1], s[1]), c), s[2] + 1, None>>

\* n passes of the loop from s.  The passes are split in halves, the first
\* half evaluated before the second starts, to bound the nesting.
RECURSIVE EscapeLoop(_, _, _)
EscapeLoop(c, s, n) ==
    IF n = 0 THEN s
    ELSE IF n = 1 THEN EscapeStep(c, s)
    ELSE LET h == EscapeLoop(c, s, n \div 2)
         IN  IF h[2] >= 0 THEN EscapeLoop(c, h, n - (n \div 2)) ELSE h

escape_time(c, limit) == EscapeLoop(c, <<Cx(F(0), F(0)), 0, None>>, limit)[3]

----------------------------------------------------------------------------
(* utils/transform.rs *)

\* A mapper whose imaginary part grows with the row.
pixel_to_point_unflipped(bounds, pixel, upper_left, lower_right) ==
    LET width  == FSub(lower_right.re, upper_left.re)
        height == FSub(upper_left.im, lower_right.im)
    IN  Cx(FAdd(upper_left.re, FDiv(FMul(F(pixel[1]), width), F(bounds[1]))),
           FAdd(upper_left.im, FDiv(FMul(F(pixel[2]), height), F(bounds[2]))))

pixel_to_point(bounds, pixel, upper_left, lower_right) ==
    LET width  == FSub(lower_right.re, upper_left.re)
        height == FSub(upper_left.im, lower_right.im)
    IN  Cx(FAdd(upper_left.re, FDiv(FMul(F(pixel[1]), width), F(bounds[1]))),
           FSub(upper_left.im, FDiv(FMul(F(pixel[2]), height), F(bounds[2]))))

\* center + (original - center) * factor, on Complex<f64>.
\* A scaling about the origin, moved by the center afterwards.
scale_point_about_origin(original, center, factor) ==
    CAdd(center, CScale(original, factor))

scale_point(original, center, factor) ==
    CAdd(center, CScale(CSub(original, center), factor))

----------------------------------------------------------------------------
(* utils.rs: the band renderer *)

\* The iteration cap render passes to escape_time.
IterationCap == 255

\* usize as u8.
AsU8(n) == n % 256

\* The byte render stores for pixel (column, row).
RenderPixel(bounds, column, row, upper_left, lower_right) ==
    LET point == pixel_to_point(bounds, <<column, row>>, upper_left, lower_right)
        t     == escape_time(point, IterationCap)
    IN  IF t = None THEN 0 ELSE 255 - AsU8(t[1])

\* A render that stores pixel (column, row) at column * bounds.1 + row.
render_transposed(pixels, bounds, upper_left, lower_right) ==
    IF Len(pixels) # bounds[1] * bounds[2]
    THEN [panicked |-> TRUE, pixels |-> pixels]
    ELSE [panicked |-> FALSE,
          pixels |-> [k \in 1..Len(pixels) |->
                        RenderPixel(bounds, (k - 1) \div bounds[2], (k - 1) % bounds[2],
                                    upper_left, lower_right)]]

\* A render whose assertion on the length comes after the loop: the pixels
\* that the slice has are stored first.
render_assert_last(pixels, bounds, upper_left, lower_right) ==
    [panicked |-> Len(pixels) # bounds[1] * bounds[2],
     pixels |-> [k \in 1..Len(pixels) |->
                   IF k <= bounds[1] * bounds[2]
                   THEN RenderPixel(bounds, (k - 1) % bounds[1], (k - 1) \div bounds[1],
                                    upper_left, lower_right)
                   ELSE pixels[k]]]

\* render on the slice pixels: the assertion on its length, then the row by
\* row, column by column loop; pixel (column, row) is entry
\* row * bounds.0 + column + 1 of the sequence.
render(pixels, bounds, upper_left, lower_right) ==
    IF Len(pixels) # bounds[1] * bounds[2]
    THEN [panicked |-> TRUE, pixels |-> pixels]
    ELSE [panicked |-> FALSE,
          pixels |-> [k \in 1..Len(pixels) |->
                        RenderPixel(bounds, (k - 1) % bounds[1], (k - 1) \div bounds[1],
                                    upper_left, lower_right)]]

----------------------------------------------------------------------------
(* main.rs: the bands of one frame *)

\* let rows_per_band = bounds.1 / threads + 1;
rows_per_band(bounds, threads) == bounds[2] \div threads + 1

\* chunks_mut taken for chunks_exact_mut: a shorter last chunk is left out.
chunks_exact_mut(len, size) ==
    [k \in 1..(len \div size) |-> [start |-> (k - 1) * size, len |-> size]]

\* <[u8]>::chunks_mut(size) on a slice of length len, size > 0: the chunks
\* in order, each as its offset and its length.
chunks_mut(len, size) ==
    [k \in 1..((len + size - 1) \div size) |->
        [start |-> (k - 1) * size, len |-> Min2(size, len - (k - 1) * size)]]

\* What the spawn loop computes for the band with index band_idx (from 0)
\* and hands to its worker.
BandJob(bounds, threads, band_idx, band, upper_left, lower_right) ==
    LET top    == rows_per_band(bounds, threads) * band_idx
        height == band.len \div bounds[1]
    IN  [start |-> band.start, len |-> band.len, top |-> top,
         band_bounds |-> <<bounds[1], height>>,
         band_upper_left |-> pixel_to_point(bounds, <<0, top>>, upper_left, lower_right),
         band_lower_right |->
             pixel_to_point(bounds, <<bounds[1], top + height>>, upper_left, lower_right)]

\* The jobs of one frame, in band order.
FrameJobs(bounds, threads, upper_left, lower_right) ==
    LET bands == chunks_mut(bounds[1] * bounds[2], rows_per_band(bounds, threads) * bounds[1])
    IN  [b \in 1..Len(bands) |->
            BandJob(bounds, threads, b - 1, bands[b], upper_left, lower_right)]

\* The bytes the worker of job j stores, in the order it stores them.
JobImage(j) ==
    render([k \in 1..j.len |-> 0], j.band_bounds, j.band_upper_left, j.band_lower_right).pixels

----------------------------------------------------------------------------
(* The configurations of the model: what Cli::parse and the parse_* calls
   of main deliver. *)

MaxWidth == 2

MaxHeight == 6

MaxThreads == 4

MaxFrames == 2

\* --upper-left and --lower-right as cli.rs defaults them: "-2.0,-2.0" and
\* "2.0,2.0".
DefaultUpperLeft == Cx(F(-2), F(-2))

DefaultLowerRight == Cx(F(2), F(2))

\* --scale-factor 0.95 and --pointer "-1.4002,0.0", the defaults of cli.rs,
\* as the nearest values of the model's precision.
DefaultScaleFactor == Dy(243, 8)

DefaultPointer == Cx(Dy(-179, 7), F(0))

\* The viewports a run may be started with: the default of cli.rs, the
\* square -2+2i .. 2-2i, and a strip left of the set, across the real axis.
Viewports ==
    { <<DefaultUpperLeft, DefaultLowerRight>>,
      <<Cx(F(-2), F(2)), Cx(F(2), F(-2))>>,
      <<Cx(F(-2), F(1)), Cx(F(-1), F(-1))>> }

ScaleFactors == { DefaultScaleFactor, Dy(1, 1), F(-1), F(0) }

Pointers == { DefaultPointer, Cx(F(-1), F(0)) }

\* --no-frames is off unless given.
DefaultNoFrames == FALSE

Config(bounds, threads, n_frames, vp, factor, pointer, no_frames) ==
    [bounds |-> bounds, threads |-> threads, n_frames |-> n_frames,
     upper_left |-> vp[1], lower_right |-> vp[2],
     scale_factor |-> factor, scale_pointer |-> pointer, no_frames |-> no_frames]

\* Every image size and thread count on one frame of the strip, and every
\* viewport, factor, pointer and frame count on a 1 x 2 image with 2 threads.
Configs ==
    { Config(<<w, h>>, t, 1, <<Cx(F(-2), F(1)), Cx(F(-1), F(-1))>>, Dy(1, 1), DefaultPointer,
             DefaultNoFrames) :
         w \in 1..MaxWidth, h \in 1..MaxHeight, t \in 1..MaxThreads }
    \cup
    { Config(<<1, 2>>, 2, n, vp, f, c, nf) :
         n \in 0..MaxFrames, vp \in Viewports, f \in ScaleFactors, c \in Pointers,
         nf \in BOOLEAN }

----------------------------------------------------------------------------
(* main.rs: the animation driver and its band workers *)

VARIABLES
    cfg,          \* the parsed command line
    upper_left,   \* main's upper_left
    lower_right,  \* main's lower_right
    pixels,       \* the pixel buffer
    frame_paths,  \* main's frame_paths
    i,            \* the index of the for loop over 0..n_frames
    pc,           \* where main is: "start", "tempdir", "loop", "spawn", "join",
                  \* "write", "sink", "scale", "done", "panic"
    jobs,         \* the bands of the frame in progress and what each worker is given
    images,       \* per band, the bytes its render call stores (kept beside the job)
    band_idx,     \* the number of bands spawned so far in this frame
    workers,      \* per band: status "unspawned", "running", "done", "panicked",
                  \* and next, the number of pixels stored so far
    written,      \* per pixel, the bands that stored it in this frame, in order
    log,          \* the steps main has completed: <<"render", i>>, <<"sink", i>>, <<"scale", i>>
    sink_calls,   \* the frame indices write_image was called with, in order
    files,        \* the buffers write_image saved, in order
    gif_called,   \* whether make_gif was called
    cause,        \* of a panic: "render", "sink", "gif"; "" otherwise
    frames_dir,   \* the directory of the frames: whether it exists on disk, and the
                  \* TempDir value that deletes it when dropped: "none", "held", "dropped"
    call          \* the last direct call of a function of utils, for the function-level checks

vars == <<cfg, frames_dir, upper_left, lower_right, pixels, frame_paths, i, pc, jobs, images,
          band_idx, workers, written, log, sink_calls, files, gif_called, cause, call>>

NoCall == [op |-> "none"]

\* main up to the for loop, for the command line c.
InitWith(c) ==
    /\ cfg = c
    /\ upper_left = c.upper_left
    /\ lower_right = c.lower_right
    /\ pixels = [k \in 1..(c.bounds[1] * c.bounds[2]) |-> 0]
    /\ frame_paths = <<>>
    /\ i = 0
    /\ pc = "start"
    /\ frames_dir = [exists |-> FALSE, guard |-> "none"]
    /\ jobs = <<>>
    /\ images = <<>>
    /\ band_idx = 0
    /\ workers = <<>>
    /\ written = [k \in 1..(c.bounds[1] * c.bounds[2]) |-> <<>>]
    /\ log = <<>>
    /\ sink_calls = <<>>
    /\ files = <<>>
    /\ gif_called = FALSE
    /\ cause = ""
    /\ call = NoCall

Init == \E c \in Configs : InitWith(c)

\* The head of the for loop with a frame left: the buffer is split in bands.
\* main chooses where the frames go. With --no-frames it makes a TempDir,
\* held by the local dir of the if block; otherwise it makes the frames
\* directory under the output folder. (The creation is taken to succeed.)
CreateFramesDir ==
    /\ pc = "start"
    /\ IF cfg.no_frames
       THEN /\ frames_dir' = [exists |-> TRUE, guard |-> "held"]
            /\ pc' = "tempdir"
       ELSE /\ frames_dir' = [exists |-> TRUE, guard |-> "none"]
            /\ pc' = "loop"
    /\ UNCHANGED <<cfg, upper_left, lower_right, pixels, frame_paths, i, jobs, images,
                   band_idx, workers, written, log, sink_calls, files, gif_called,
                   cause, call>>

\* The if block ends with dir.path().to_path_buf(): frames_dir is a copy of
\* the path, and the TempDir itself goes out of scope there, which removes
\* the directory.
DropTempDir ==
    /\ pc = "tempdir"
    /\ frames_dir' = [exists |-> FALSE, guard |-> "dropped"]
    /\ pc' = "loop"
    /\ UNCHANGED <<cfg, upper_left, lower_right, pixels, frame_paths, i, jobs, images,
                   band_idx, workers, written, log, sink_calls, files, gif_called,
                   cause, call>>

BeginFrame ==
    /\ pc = "loop"
    /\ i < cfg.n_frames
    /\ LET js == FrameJobs(cfg.bounds, cfg.threads, upper_left, lower_right)
       IN  /\ jobs' = js
           /\ images' = [b \in 1..Len(js) |-> JobImage(js[b])]
           /\ workers' = [b \in 1..Len(js) |-> [status |-> "unspawned", next |-> 0]]
    /\ written' = [k \in 1..Len(pixels) |-> <<>>]
    /\ band_idx' = 0
    /\ pc' = IF FrameJobs(cfg.bounds, cfg.threads, upper_left, lower_right) = <<>>
             THEN "join" ELSE "spawn"
    /\ UNCHANGED <<cfg, frames_dir, upper_left, lower_right, pixels, frame_paths, i, log,
                   sink_calls, files, gif_called, cause, call>>

\* spawner.spawn for the next band; after the last one the scope waits.
SpawnBand ==
    /\ pc = "spawn"
    /\ band_idx < Len(jobs)
    /\ workers' = [workers EXCEPT ![band_idx + 1].status = "running"]
    /\ band_idx' = band_idx + 1
    /\ pc' = IF band_idx + 1 = Len(jobs) THEN "join" ELSE "spawn"
    /\ UNCHANGED <<cfg, frames_dir, upper_left, lower_right, pixels, frame_paths, i, jobs, images,
                   written, log, sink_calls, files, gif_called, cause, call>>

\* The worker of band b stores its next pixel; after the last one it ends.
WorkerWrite(b) ==
    /\ workers[b].status = "running"
    /\ LET n == workers[b].next
           k == jobs[b].start + n + 1
       IN  /\ pixels' = [pixels EXCEPT ![k] = images[b][n + 1]]
           /\ written' = [written EXCEPT ![k] = Append(@, b)]
           /\ workers' = [workers EXCEPT
                             ![b].next = n + 1,
                             ![b].status = IF n + 1 = jobs[b].len THEN "done" ELSE "running"]
    /\ UNCHANGED <<cfg, frames_dir, upper_left, lower_right, frame_paths, i, pc, jobs, images,
                   band_idx, log, sink_calls, files, gif_called, cause, call>>

\* The worker of band b panics.
WorkerPanic(b) ==
    /\ workers[b].status = "running"
    /\ workers' = [workers EXCEPT ![b].status = "panicked"]
    /\ UNCHANGED <<cfg, frames_dir, upper_left, lower_right, pixels, frame_paths, i, pc, jobs, images,
                   band_idx, written, log, sink_calls, files, gif_called, cause, call>>

\* A scope that returns as soon as one thread has ended.
JoinFirst ==
    /\ pc = "join"
    /\ \E b \in 1..Len(workers) : workers[b].status \in {"done", "panicked"}
    /\ IF \E b \in 1..Len(workers) : workers[b].status = "panicked"
       THEN /\ pc' = "panic"
            /\ cause' = "render"
            /\ log' = log
       ELSE /\ pc' = "write"
            /\ cause' = cause
            /\ log' = Append(log, <<"render", i>>)
    /\ UNCHANGED <<cfg, frames_dir, upper_left, lower_right, pixels, frame_paths, i, jobs, images,
                   band_idx, workers, written, sink_calls, files, gif_called, call>>

\* A scope whose result main drops instead of unwrapping it.
JoinIgnoringPanics ==
    /\ pc = "join"
    /\ \A b \in 1..Len(workers) : workers[b].status \in {"done", "panicked"}
    /\ pc' = "write"
    /\ log' = Append(log, <<"render", i>>)
    /\ UNCHANGED <<cfg, frames_dir, upper_left, lower_right, pixels, frame_paths, i, jobs, images,
                   band_idx, workers, written, sink_calls, files, gif_called, cause, call>>

\* crossbeam::scope returns once every spawned thread has ended, with Err if
\* one of them panicked, and main unwraps the result.
Join ==
    /\ pc = "join"
    /\ \A b \in 1..Len(workers) : workers[b].status \in {"done", "panicked"}
    /\ IF \E b \in 1..Len(workers) : workers[b].status = "panicked"
       THEN /\ pc' = "panic"
            /\ cause' = "render"
            /\ log' = log
       ELSE /\ pc' = "write"
            /\ cause' = cause
            /\ log' = Append(log, <<"render", i>>)
    /\ UNCHANGED <<cfg, frames_dir, upper_left, lower_right, pixels, frame_paths, i, jobs, images,
                   band_idx, workers, written, sink_calls, files, gif_called, call>>

\* main calls write_image with the buffer.
SinkCall ==
    /\ pc = "write"
    /\ pc' = "sink"
    /\ sink_calls' = Append(sink_calls, i)
    /\ UNCHANGED <<cfg, frames_dir, upper_left, lower_right, pixels, frame_paths, i, jobs, images,
                   band_idx, workers, written, log, files, gif_called, cause, call>>

\* write_image returns: Ok with the image saved, and main pushes the frame's
\* path; or Err, and the expect of main panics.
SinkReturn ==
    /\ pc = "sink"
    /\ \/ /\ frames_dir' = [frames_dir EXCEPT !.exists = TRUE]
          /\ files' = Append(files, pixels)
          /\ frame_paths' = Append(frame_paths, i + 1)
          /\ log' = Append(log, <<"sink", i>>)
          /\ pc' = "scale"
          /\ cause' = cause
       \/ /\ \/ frames_dir' = frames_dir
             \/ frames_dir' = [frames_dir EXCEPT !.exists = TRUE]
          /\ pc' = "panic"
          /\ cause' = "sink"
          /\ UNCHANGED <<files, frame_paths, log>>
    /\ UNCHANGED <<cfg, upper_left, lower_right, pixels, i, jobs, images,
                   band_idx, workers, written, sink_calls, gif_called, call>>

\* A scaling that refuses a factor that is not positive: main panics.
ScaleViewRejecting ==
    /\ pc = "scale"
    /\ IF FGt(cfg.scale_factor, F(0))
       THEN /\ upper_left' = scale_point(upper_left, cfg.scale_pointer, cfg.scale_factor)
            /\ lower_right' = scale_point(lower_right, cfg.scale_pointer, cfg.scale_factor)
            /\ log' = Append(log, <<"scale", i>>)
            /\ i' = i + 1
            /\ pc' = "loop"
            /\ cause' = cause
       ELSE /\ pc' = "panic"
            /\ cause' = "scale"
            /\ UNCHANGED <<upper_left, lower_right, log, i>>
    /\ UNCHANGED <<cfg, frames_dir, pixels, frame_paths, jobs, images, band_idx, workers, written,
                   sink_calls, files, gif_called, call>>

\* A scaling that leaves lower_right where it was.
ScaleViewUpperLeftOnly ==
    /\ pc = "scale"
    /\ upper_left' = scale_point(upper_left, cfg.scale_pointer, cfg.scale_factor)
    /\ log' = Append(log, <<"scale", i>>)
    /\ i' = i + 1
    /\ pc' = "loop"
    /\ UNCHANGED <<cfg, frames_dir, lower_right, pixels, frame_paths, jobs, images, band_idx, workers,
                   written, sink_calls, files, gif_called, cause, call>>

\* Scale the view, and the loop goes to its next index.
ScaleView ==
    /\ pc = "scale"
    /\ upper_left' = scale_point(upper_left, cfg.scale_pointer, cfg.scale_factor)
    /\ lower_right' = scale_point(lower_right, cfg.scale_pointer, cfg.scale_factor)
    /\ log' = Append(log, <<"scale", i>>)
    /\ i' = i + 1
    /\ pc' = "loop"
    /\ UNCHANGED <<cfg, frames_dir, pixels, frame_paths, jobs, images, band_idx, workers, written,
                   sink_calls, files, gif_called, cause, call>>

\* The loop is over and main calls make_gif, which fails without frames (and
\* may fail on its files), and main panics on Err.
MakeGif ==
    /\ pc = "loop"
    /\ i >= cfg.n_frames
    /\ gif_called' = TRUE
    /\ \/ /\ frame_paths # <<>>
          /\ pc' = "done"
          /\ cause' = cause
       \/ /\ pc' = "panic"
          /\ cause' = "gif"
    /\ UNCHANGED <<cfg, frames_dir, upper_left, lower_right, pixels, frame_paths, i, jobs, images,
                   band_idx, workers, written, log, sink_calls, files, call>>

Next ==
    \/ CreateFramesDir
    \/ DropTempDir
    \/ BeginFrame
    \/ SpawnBand
    \/ \E b \in 1..Len(workers) : WorkerWrite(b)
    \/ \E b \in 1..Len(workers) : WorkerPanic(b)
    \/ Join
    \/ SinkCall
    \/ SinkReturn
    \/ ScaleView
    \/ MakeGif

Spec == Init /\ [][Next]_vars

----------------------------------------------------------------------------
(* Direct calls of the functions of utils, one per behaviour, on inputs
   drawn from bounded sets *)

MaxSide == 4

MaxLimit == 8

MaxRows == 10

MaxWorkers == 8

\* The viewport of test_pixel_to_point, and the corners "-1.5,1.3" and
\* "0.6,-1.8" as the nearest values of 8 significant bits.
TestViewport == <<Cx(F(-1), F(1)), Cx(F(1), F(-1))>>

DecimalViewport == <<Cx(Dy(-3, 1), Dy(83, 6)), Cx(Dy(77, 7), Dy(-115, 6))>>

FnViewports == Viewports \cup {TestViewport, DecimalViewport}

\* The bounds and pixel of test_pixel_to_point.
TestBounds == <<100, 200>>

TestPixel == <<25, 175>>

\* Points of the plane on the grid of halves around the set.
FnPoints == { Cx(Dy(a, 1), Dy(b, 1)) : a \in -4..2, b \in -2..2 }

\* The driver at rest while functions are called directly.
FnConfig ==
    Config(<<1, 1>>, 1, 0, <<Cx(F(-2), F(1)), Cx(F(-1), F(-1))>>, Dy(1, 1), DefaultPointer,
           DefaultNoFrames)

FnInit == InitWith(FnConfig)

Driver == <<cfg, frames_dir, upper_left, lower_right, pixels, frame_paths, i, pc, jobs, images,
            band_idx, workers, written, log, sink_calls, files, gif_called, cause>>

\* The lengths of the slices handed to render: the one its bounds ask for,
\* one byte short and one byte long.
SliceLens(bounds) ==
    {bounds[1] * bounds[2] - 1, bounds[1] * bounds[2], bounds[1] * bounds[2] + 1}

CallPixelToPoint ==
    /\ call = NoCall
    /\ \E vp \in FnViewports :
       \E bounds \in ((1..MaxSide) \X (1..MaxSide)) \cup {TestBounds} :
       \E pixel \in IF bounds = TestBounds
                    THEN {<<0, 0>>, TestPixel, TestBounds}
                    ELSE (0..bounds[1]) \X (0..bounds[2]) :
          /\ bounds = TestBounds => vp = TestViewport
          /\ call' = [op |-> "pixel_to_point", bounds |-> bounds, pixel |-> pixel,
                      upper_left |-> vp[1], lower_right |-> vp[2],
                      ret |-> pixel_to_point(bounds, pixel, vp[1], vp[2])]
    /\ UNCHANGED Driver

CallEscapeTime ==
    /\ call = NoCall
    /\ \E c \in FnPoints : \E limit \in 0..MaxLimit :
          call' = [op |-> "escape_time", c |-> c, limit |-> limit,
                   ret |-> escape_time(c, limit)]
    /\ UNCHANGED Driver

CallRender ==
    /\ call = NoCall
    /\ \E vp \in FnViewports : \E bounds \in {<<4, 4>>, <<2, 3>>, <<3, 2>>} :
       \E len \in SliceLens(bounds) :
          call' = [op |-> "render", bounds |-> bounds,
                   pixels |-> [k \in 1..len |-> k],
                   upper_left |-> vp[1], lower_right |-> vp[2],
                   ret |-> render([k \in 1..len |-> k], bounds, vp[1], vp[2])]
    /\ UNCHANGED Driver

CallFrameJobs ==
    /\ call = NoCall
    /\ \E w \in 1..2 : \E h \in 1..MaxRows : \E t \in 1..MaxWorkers :
          call' = [op |-> "frame_jobs", bounds |-> <<w, h>>, threads |-> t,
                   ret |-> FrameJobs(<<w, h>>, t, TestViewport[1], TestViewport[2])]
    /\ UNCHANGED Driver

\* The corners, pointers and factors of test_scale_point, of the default
\* command line and of a view with decimal corners.
ScaleOriginals ==
    { Cx(F(2), F(2)), Cx(F(1), F(1)), DefaultUpperLeft, DecimalViewport[1], DecimalViewport[2] }

ScaleCenters == { Cx(F(1), F(1)), DefaultPointer, DecimalViewport[1] }

FnFactors == { F(2), Dy(1, 1), F(-1), F(1), F(0), F(3), DefaultScaleFactor }

\* scale_point on one corner, and for a factor other than 0 scale_point on
\* its result with 1.0 / factor about the same center.
CallScalePoint ==
    /\ call = NoCall
    /\ \E original \in ScaleOriginals : \E center \in ScaleCenters : \E factor \in FnFactors :
          LET ret == scale_point(original, center, factor)
          IN  call' = [op |-> "scale_point", original |-> original, center |-> center,
                       factor |-> factor, ret |-> ret,
                       back |-> IF factor = F(0) THEN ret
                                ELSE scale_point(ret, center, FDiv(F(1), factor))]
    /\ UNCHANGED Driver

FnNext ==
    \/ CallScalePoint
    \/ CallPixelToPoint
    \/ CallEscapeTime
    \/ CallRender
    \/ CallFrameJobs

FnSpec == FnInit /\ [][FnNext]_vars

----------------------------------------------------------------------------
(* Claims about the driver, checked under Spec *)

\* The pixels of band b of the frame in progress, as offsets from 1.
BandPixels(b) == (jobs[b].start + 1)..(jobs[b].start + jobs[b].len)

\* The rows of band b.
BandRowCount(b) == jobs[b].len \div cfg.bounds[1]

\* The frame in progress has been rendered: scope has returned Ok.
FrameRendered == pc \in {"write", "sink", "scale"}

\* C1: the bands of a frame are contiguous row ranges of the buffer, in
\* order, none empty, that do not overlap and together are rows 0..height;
\* no pixel is ever stored twice in a frame, a pixel is stored only by the
\* worker of the band that holds it, and once the frame is rendered every
\* pixel has been stored exactly once.
C1_BandsPartitionBuffer ==
    /\ \A b \in 1..Len(jobs) :
          /\ jobs[b].len > 0
          /\ jobs[b].len % cfg.bounds[1] = 0
          /\ jobs[b].start = jobs[b].top * cfg.bounds[1]
          /\ jobs[b].start = IF b = 1 THEN 0 ELSE jobs[b - 1].start + jobs[b - 1].len
    /\ jobs # <<>> =>
          jobs[Len(jobs)].start + jobs[Len(jobs)].len = cfg.bounds[1] * cfg.bounds[2]
    /\ \A k \in 1..Len(written) :
          /\ Len(written[k]) <= 1
          /\ \A n \in 1..Len(written[k]) : k \in BandPixels(written[k][n])
    /\ FrameRendered => \A k \in 1..Len(written) : Len(written[k]) = 1

\* C1 happens: a frame of several rows and columns rendered by three bands.
C1_Witness ==
    /\ FrameRendered
    /\ Len(jobs) = 3
    /\ cfg.bounds[1] = 2
    /\ \A k \in 1..Len(written) : Len(written[k]) = 1

\* C2: while write_image holds the buffer (and from the moment scope has
\* returned Ok) every band of the frame was spawned, has stored all of its
\* pixels and has ended.
C2_SinkAfterAllWorkers ==
    pc \in {"write", "sink"} =>
        /\ band_idx = Len(jobs)
        /\ \A b \in 1..Len(workers) :
              /\ workers[b].status = "done"
              /\ workers[b].next = jobs[b].len

\* C2 happens: write_image is running on a frame of three bands.
C2_Witness == pc = "sink" /\ Len(workers) = 3 /\ i = 0

\* The completed steps of main, in the order the loop takes them.
StepKind(k) == CASE k % 3 = 0 -> "render" [] k % 3 = 1 -> "sink" [] OTHER -> "scale"

\* p after n scalings about the pointer of the run.
RECURSIVE ScaledTimes(_, _)
ScaledTimes(p, n) ==
    IF n = 0 THEN p
    ELSE scale_point(ScaledTimes(p, n - 1), cfg.scale_pointer, cfg.scale_factor)

\* C3: main completes render(0), sink(0), scale(0), render(1), ... in this
\* order; write_image is called once per index, in increasing order; while
\* the bands of frame i are being spawned or are running, write_image has
\* returned for every earlier frame; the viewport of frame i is the initial
\* one after exactly i scalings about the pointer; a run that ends has
\* taken all three steps for each of its n_frames frames.
C3_FramesInSequence ==
    /\ \A k \in 1..Len(log) : log[k] = <<StepKind(k - 1), (k - 1) \div 3>>
    /\ \A k \in 1..Len(sink_calls) : sink_calls[k] = k - 1
    /\ pc \in {"spawn", "join", "write"} =>
          /\ Len(files) = i
          /\ Len(sink_calls) = i
          /\ Len(log) \in {3 * i, 3 * i + 1}
    /\ (\E b \in 1..Len(workers) : workers[b].status = "running") => Len(files) = i
    /\ upper_left = ScaledTimes(cfg.upper_left, i)
    /\ lower_right = ScaledTimes(cfg.lower_right, i)
    /\ pc = "done" => /\ i = cfg.n_frames
                      /\ Len(log) = 3 * cfg.n_frames
                      /\ Len(sink_calls) = cfg.n_frames

\* C3 happens: a run of two frames has ended.
C3_Witness == pc = "done" /\ cfg.n_frames = 2 /\ Len(files) = 2

\* What a failure leaves behind: once a worker of frame i has panicked
\* write_image is not called for frame i; a run that has panicked on a
\* render or on a write has saved exactly the frames before i, has called
\* write_image for no index above i (in the render case not for i either),
\* and has not called make_gif.
AbortedCleanly ==
    /\ (\E b \in 1..Len(workers) : workers[b].status = "panicked") =>
          (pc \in {"spawn", "join", "panic"} /\ Len(sink_calls) = i)
    /\ (pc = "panic" /\ cause = "render") =>
          (Len(sink_calls) = i /\ Len(files) = i /\ ~gif_called)
    /\ (pc = "panic" /\ cause = "sink") =>
          (Len(sink_calls) = i + 1 /\ Len(files) = i /\ ~gif_called)

\* C4: a worker fault or a sink error in frame i aborts the run: the step
\* is not retried, no later frame is rendered or written, make_gif is not
\* called, after a worker fault write_image is not called for frame i
\* (AbortedCleanly, always), and a run that has panicked takes no further
\* step.
C4_FailureAborts ==
    /\ []AbortedCleanly
    /\ [][pc = "panic" => UNCHANGED vars]_vars

\* C4 happens: the second frame's render has panicked after the first frame
\* was saved.
C4_Witness == pc = "panic" /\ cause = "render" /\ i = 1 /\ Len(files) = 1

\* C4 happens as well for the sink.
C4_WitnessSink == pc = "panic" /\ cause = "sink" /\ i = 1

Positive(r) == r > 0

\* The row counts of worker_count bands of ceil(height / worker_count) rows
\* laid over height rows, the last ones cut short or empty.
CeilBandRows(height, worker_count) ==
    LET c == (height + worker_count - 1) \div worker_count
    IN  [k \in 1..worker_count |->
           IF height - (k - 1) * c <= 0 THEN 0 ELSE Min2(c, height - (k - 1) * c)]

\* C5: for every height > 0 and worker count > 0 the bands of a frame are
\* worker_count bands of ceil(height / worker_count) rows each, only the last
\* ones shorter or empty, also when worker_count divides height: the bands
\* the driver builds are the nonempty ones of that partition, in order.
C5_BandsOfCeilRows ==
    call.op = "frame_jobs" =>
        [b \in 1..Len(call.ret) |-> call.ret[b].band_bounds[2]]
            = SelectSeq(CeilBandRows(call.bounds[2], call.threads), Positive)

\* C6: a rendered frame is, byte for byte, what one render call over the
\* whole image and the whole viewport stores, for every thread count and
\* every order in which the workers store their pixels.
C6_SameAsSingleBand ==
    FrameRendered =>
        pixels = render([k \in 1..(cfg.bounds[1] * cfg.bounds[2]) |-> 0],
                        cfg.bounds, upper_left, lower_right).pixels

\* C7: at the start of every frame the view is upright: upper_left.re <
\* lower_right.re and upper_left.im > lower_right.im.
C7_ViewUpright ==
    (pc = "loop" /\ i < cfg.n_frames) =>
        /\ FLt(upper_left.re, lower_right.re)
        /\ FGt(upper_left.im, lower_right.im)

\* The integer n with x = n * 2^e, for a number x and an exponent e not above its own.
ExactAt(x, e) == x[1] * 2 ^ (x[2] - e)

\* The least exponent of the numbers in S.
CommonExp(S) == CHOOSE e \in {x[2] : x \in S} : \A x \in S : e <= x[2]

\* On one axis, the returned coordinate p for pixel index n of size, between
\* the corners lo and hi, is within 2^-MantissaBits * (5 |hi - lo| + |lo|) of
\* lo + n * (hi - lo) / size. Both sides are multiplied by size and compared
\* as integers at a common exponent.
AxisWithinRounding(p, lo, hi, n, size) ==
    LET e == CommonExp({p, lo, hi})
        P == ExactAt(p, e)
        L == ExactAt(lo, e)
        H == ExactAt(hi, e)
    IN  Abs(size * (P - L) - n * (H - L))
            <= (size * (5 * Abs(H - L) + Abs(L))) \div (2 ^ MantissaBits)

\* The extent hi - lo and its product with size are numbers of the format.
ExtentExact(lo, hi, size) ==
    LET e == CommonExp({lo, hi})
        d == ExactAt(hi, e) - ExactAt(lo, e)
    IN  /\ RoundF(d, e) = Canon(d, e)
        /\ RoundF(size * d, e) = Canon(size * d, e)

\* The result of test_pixel_to_point.
TestPoint == Cx(Dy(-1, 1), Dy(-3, 2))

IsTestCall ==
    /\ call.bounds = TestBounds
    /\ call.pixel = TestPixel
    /\ <<call.upper_left, call.lower_right>> = TestViewport

\* C8 as stated: pixel_to_point is the affine map up to the rounding of its
\* operations, pixel (0,0) maps to upper_left, pixel (width,height) maps to
\* lower_right for every viewport, and the test's pixel maps to -0.5-0.75i.
C8_CornersExact ==
    call.op = "pixel_to_point" =>
        /\ AxisWithinRounding(call.ret.re, call.upper_left.re, call.lower_right.re,
                              call.pixel[1], call.bounds[1])
        /\ AxisWithinRounding(call.ret.im, call.upper_left.im, call.lower_right.im,
                              call.pixel[2], call.bounds[2])
        /\ call.pixel = <<0, 0>> => call.ret = call.upper_left
        /\ call.pixel = call.bounds => call.ret = call.lower_right
        /\ IsTestCall => call.ret = TestPoint

\* C8: pixel_to_point is the affine map up to the rounding of its operations
\* on each axis; pixel (0,0) maps to upper_left exactly; on an axis whose
\* extent and extent times size are numbers of the format, index size maps
\* to the lower_right coordinate exactly; the test's pixel maps to -0.5-0.75i.
C8_AffineUpToRounding ==
    call.op = "pixel_to_point" =>
        /\ AxisWithinRounding(call.ret.re, call.upper_left.re, call.lower_right.re,
                              call.pixel[1], call.bounds[1])
        /\ AxisWithinRounding(call.ret.im, call.upper_left.im, call.lower_right.im,
                              call.pixel[2], call.bounds[2])
        /\ call.pixel = <<0, 0>> => call.ret = call.upper_left
        /\ (/\ call.pixel[1] = call.bounds[1]
            /\ ExtentExact(call.upper_left.re, call.lower_right.re, call.bounds[1]))
              => call.ret.re = call.lower_right.re
        /\ (/\ call.pixel[2] = call.bounds[2]
            /\ ExtentExact(call.upper_left.im, call.lower_right.im, call.bounds[2]))
              => call.ret.im = call.lower_right.im
        /\ IsTestCall => call.ret = TestPoint

\* C8 happens: the lower right pixel of a 3 x 3 image over the test's
\* viewport, whose extents are exact, is mapped to lower_right.
C8_Witness ==
    /\ call.op = "pixel_to_point"
    /\ call.bounds = <<3, 3>>
    /\ call.pixel = <<3, 3>>
    /\ <<call.upper_left, call.lower_right>> = TestViewport
    /\ call.ret = call.lower_right

\* The iterate z_k of c: z_0 = 0, z_(k+1) = z_k * z_k + c (which is c when
\* z_k = 0).
RECURSIVE Orbit(_, _)
Orbit(c, k) ==
    IF k = 0 THEN Cx(F(0), F(0))
    ELSE LET z == Orbit(c, k - 1)
         IN  IF z = Cx(F(0), F(0)) THEN c ELSE CAdd(CMul(z, z), c)

\* The indices below limit at which the iterate is outside the escape radius.
EscapedAt(c, limit) ==
    {k \in 0..(limit - 1) : FGt(norm_sqr(Orbit(c, k)), F(EscapeRadiusSqr))}

C9_WitnessNone ==
    /\ call.op = "escape_time"
    /\ call.c = Cx(F(-2), F(0))
    /\ call.limit = MaxLimit
    /\ call.ret = None

\* The byte render stores for an escape_time result.
Shade(t) == IF t = None THEN 0 ELSE 255 - Min2(t[1], 255)

\* C10: after render on a slice of width * height bytes, pixel (column, row)
\* holds 0 if escape_time of its point with limit 255 is None and
\* 255 - min(count, 255) if it is Some(count); for bounds (4,4) over
\* (-2+2i, 2-2i) pixel (0,0) holds 254.
C10_RenderShades ==
    (call.op = "render" /\ Len(call.pixels) = call.bounds[1] * call.bounds[2]) =>
        /\ ~call.ret.panicked
        /\ Len(call.ret.pixels) = call.bounds[1] * call.bounds[2]
        /\ \A column \in 0..(call.bounds[1] - 1) : \A row \in 0..(call.bounds[2] - 1) :
              call.ret.pixels[row * call.bounds[1] + column + 1]
                  = Shade(escape_time(pixel_to_point(call.bounds, <<column, row>>,
                                                     call.upper_left, call.lower_right),
                                      255))
        /\ (/\ call.bounds = <<4, 4>>
            /\ call.upper_left = Cx(F(-2), F(2))
            /\ call.lower_right = Cx(F(2), F(-2)))
              => call.ret.pixels[1] = 254

\* C10 happens: the 4 x 4 render of (-2+2i, 2-2i), with points inside the
\* set and points that leave at once.
C10_Witness ==
    /\ call.op = "render"
    /\ call.bounds = <<4, 4>>
    /\ call.upper_left = Cx(F(-2), F(2))
    /\ call.lower_right = Cx(F(2), F(-2))
    /\ call.ret.pixels[1] = 254
    /\ \E k \in 1..16 : call.ret.pixels[k] = 0

\* C11: render on a slice whose length is not width * height fails, and it
\* fails before storing anything: the slice is as it was.
C11_MismatchFailsUntouched ==
    (call.op = "render" /\ Len(call.pixels) # call.bounds[1] * call.bounds[2]) =>
        /\ call.ret.panicked
        /\ call.ret.pixels = call.pixels

\* C11 happens: render on a slice of 15 bytes for bounds 4 x 4.
C11_Witness ==
    /\ call.op = "render"
    /\ call.bounds = <<4, 4>>
    /\ Len(call.pixels) = 15
    /\ call.ret.panicked

NonPositiveFactor == ~FGt(cfg.scale_factor, F(0))

TestScaleNegative ==
    scale_point(Cx(F(2), F(2)), Cx(F(1), F(1)), F(-1)) = Cx(F(0), F(0))

C12_WitnessZero ==
    /\ pc = "loop"
    /\ cfg.scale_factor = F(0)
    /\ i = 1
    /\ upper_left = cfg.scale_pointer
    /\ lower_right = cfg.scale_pointer

\* The numerator a and the denominator b of the factor f = a / b, b a power of 2.
FactorNum(f) == IF f[2] >= 0 THEN f[1] * 2 ^ f[2] ELSE f[1]

FactorDen(f) == IF f[2] >= 0 THEN 1 ELSE 2 ^ (-f[2])

\* On one axis, r is within 2^-MantissaBits * (|c| + 3 |(o - c) * f|) of
\* c + (o - c) * f; both sides are multiplied by the factor's denominator.
ScaledWithinRounding(r, o, c, f) ==
    LET e == CommonExp({r, o, c})
        R == ExactAt(r, e)
        O == ExactAt(o, e)
        C == ExactAt(c, e)
        a == FactorNum(f)
        b == FactorDen(f)
    IN  Abs(b * (R - C) - (O - C) * a)
            <= (b * Abs(C) + 3 * Abs(O - C) * Abs(a)) \div (2 ^ MantissaBits)

\* On one axis, the corner scaled by f # 0 and back by 1 / f is within
\* 2^-MantissaBits * (2 |c| + 2 |c| / |f| + 9 |o - c|) of the corner o; both
\* sides are multiplied by the factor's numerator.
BackWithinRounding(back, o, c, f) ==
    LET e == CommonExp({back, o, c})
        B == ExactAt(back, e)
        O == ExactAt(o, e)
        C == ExactAt(c, e)
        a == Abs(FactorNum(f))
        b == FactorDen(f)
    IN  a * Abs(B - O)
            <= (2 * a * Abs(C) + 2 * b * Abs(C) + 9 * a * Abs(O - C)) \div (2 ^ MantissaBits)

\* What test_scale_point asserts for the factors 2.0 and 0.5.
TestScalePositive ==
    /\ scale_point(Cx(F(2), F(2)), Cx(F(1), F(1)), F(2)) = Cx(F(3), F(3))
    /\ scale_point(Cx(F(1), F(1)), Cx(F(1), F(1)), F(2)) = Cx(F(1), F(1))
    /\ scale_point(Cx(F(2), F(2)), Cx(F(1), F(1)), Dy(1, 1)) = Cx(Dy(3, 1), Dy(3, 1))

\* C13 as stated: each corner moves to focal + (corner - focal) * factor;
\* scaling by f # 0 and then by 1/f returns the original corner, scaling by
\* 1 leaves the corner where it is, and a corner at the focal point stays.
C13_RoundTripExact ==
    call.op = "scale_point" =>
        /\ ScaledWithinRounding(call.ret.re, call.original.re, call.center.re, call.factor)
        /\ ScaledWithinRounding(call.ret.im, call.original.im, call.center.im, call.factor)
        /\ call.factor # F(0) => call.back = call.original
        /\ call.factor = F(1) => call.ret = call.original
        /\ call.original = call.center => call.ret = call.center

\* C13: each corner moves to focal + (corner - focal) * factor up to the
\* rounding of the three operations; scaling by f # 0 and then by 1/f
\* returns the original corner up to rounding (the error grows with
\* |focal| / |f|), and so does scaling by 1; a corner at the focal point is
\* left there exactly by every factor; the values of the test are exact.
C13_RoundTripUpToRounding ==
    call.op = "scale_point" =>
        /\ ScaledWithinRounding(call.ret.re, call.original.re, call.center.re, call.factor)
        /\ ScaledWithinRounding(call.ret.im, call.original.im, call.center.im, call.factor)
        /\ call.factor # F(0) =>
              /\ BackWithinRounding(call.back.re, call.original.re, call.center.re, call.factor)
              /\ BackWithinRounding(call.back.im, call.original.im, call.center.im, call.factor)
        /\ call.original = call.center => call.ret = call.center /\ call.back = call.center
        /\ TestScalePositive

\* C13 happens: the test's corner 2+2i scaled about 1+1i by 0.5 is 1.5+1.5i,
\* and scaled back by 1 / 0.5 it is 2+2i again.
C13_Witness ==
    /\ call.op = "scale_point"
    /\ call.original = Cx(F(2), F(2))
    /\ call.center = Cx(F(1), F(1))
    /\ call.factor = Dy(1, 1)
    /\ call.ret = Cx(Dy(3, 1), Dy(3, 1))
    /\ call.back = call.original

\* main has ended, by returning or by a panic.
Ended == pc \in {"done", "panic"}

\* C14: with --no-frames, the temporary directory exists from its creation
\* until main ends (through every write of a frame and make_gif), and when
\* main has ended the directory is gone, and every frame file with it.
C14_TempDirLivesThenGone ==
    cfg.no_frames =>
        /\ (frames_dir.guard # "none" /\ ~Ended) => frames_dir.exists
        /\ Ended => ~frames_dir.exists


=============================================================================
